---- MODULE Spec2Model ----
(***************************************************************************)
(* Events Manager (src/app.py): a Streamlit page that lists, creates,      *)
(* edits and deletes event records through a remote HTTP API.              *)
(*                                                                         *)
(* The script is re-executed top to bottom on every user interaction; one  *)
(* execution ("run") is modelled as the steps sidebar -> list -> edit.     *)
(* The remote API and the user are the environment: their answers and      *)
(* inputs are drawn from the sets of an environment record.                *)
(***************************************************************************)
EXTENDS Integers, Sequences, FiniteSets, TLC

VARIABLES
    pc,         \* position of the current run: "idle", "sidebar", "list", "edit"
    click,      \* the button whose press started the run ("none": no button)
    rerun,      \* st.experimental_rerun() was called: the run stopped, a new one follows
    sent,       \* the HTTP exchanges of the run, in order: [op, sc]
    request,    \* the last request sent: [op, payload]
    response,   \* what req() returned for it: [sc, body, loc]
    msgs,       \* what the run has shown: st.error / st.success / st.info
    items,      \* the list the run displays
    sel,        \* date_id_sel, the selectbox's value
    body,       \* the record get_event fetched for the edit form
    form,       \* the widget values of the form the run is handling
    patch,      \* the update patch built on Save
    shown,      \* the edit form was rendered by the run
    selected,   \* reconciler alone: the three input selections
    result,     \* reconciler alone: enforce_mutual_exclusion(selected)
    result2     \* reconciler alone: enforce_mutual_exclusion(result)

vars == <<pc, click, rerun, sent, request, response, msgs, items, sel, body, form,
          patch, shown, selected, result, result2>>

uiVars == <<pc, click, rerun, sent, request, response, msgs, items, sel, body, form,
            patch, shown>>

-----------------------------------------------------------------------------
(* Bounds of the model *)

MaxLen == 3      \* reconciler alone: total length of the three input lists
MaxPicks == 2    \* create form: channel picks over the three multiselects
MaxFetched == 2  \* fetched record: entries over its three channel lists
MaxEdits == 1    \* edit form: widget operations the user performs before Save
MaxItems == 1    \* length of the list the API returns

-----------------------------------------------------------------------------
(* Python values.  None is written per position: a str position holds a    *)
(* string, a list position a sequence, a dict position a record.           *)

NoneStr == "<None>"
NoneList == <<"<None>">>
NoneDict == [None |-> TRUE]

IsNoneDict(d) == DOMAIN d = {"None"}

\* d.get(k, dflt)
Get(d, k, dflt) == IF k \in DOMAIN d THEN d[k] ELSE dflt

\* x or [] for a list position
OrEmptyList(x) == IF x = NoneList THEN <<>> ELSE x

\* x or "" for a str position
OrEmptyStr(x) == IF x = NoneStr THEN "" ELSE x

\* body or {} for a dict position (None and {} are both falsy)
OrEmptyDict(d) == IF IsNoneDict(d) THEN <<>> ELSE d

\* set(xs)
set(xs) == {xs[i] : i \in DOMAIN xs}

CHANNELS == <<"moms", "sojourner", "patch", "test">>

Chan == set(CHANNELS)

\* Python's str order on the channel names, as sorted() uses it
StrOrder == <<"moms", "patch", "sojourner", "test">>

StrRank(c) == CHOOSE i \in DOMAIN StrOrder : StrOrder[i] = c

\* sorted(S) for a set of channel names
RECURSIVE sorted(_)
sorted(S) ==
    IF S = {} THEN <<>>
    ELSE LET m == CHOOSE x \in S : \A y \in S : StrRank(x) <= StrRank(y)
         IN  <<m>> \o sorted(S \ {m})

-----------------------------------------------------------------------------
(* enforce_mutual_exclusion, lines 58-62 *)

\* s3 -= s2 in place of s3 -= (s1 | s2)
enforce_forgets_post(selected_post, selected_posting, selected_posted) ==
    LET s1 == set(OrEmptyList(selected_post))
        s2 == set(OrEmptyList(selected_posting)) \ s1
        s3 == set(OrEmptyList(selected_posted)) \ s2
    IN  <<sorted(s1), sorted(s2), sorted(s3)>>

\* s2 ^= s1 in place of s2 -= s1
enforce_symmetric_difference(selected_post, selected_posting, selected_posted) ==
    LET s1 == set(OrEmptyList(selected_post))
        b  == set(OrEmptyList(selected_posting))
        s2 == (b \ s1) \cup (s1 \ b)
        s3 == set(OrEmptyList(selected_posted)) \ (s1 \cup s2)
    IN  <<sorted(s1), sorted(s2), sorted(s3)>>

enforce_mutual_exclusion(selected_post, selected_posting, selected_posted) ==
    LET s1 == set(OrEmptyList(selected_post))
        s2 == set(OrEmptyList(selected_posting)) \ s1
        s3 == set(OrEmptyList(selected_posted)) \ (s1 \cup s2)
    IN  <<sorted(s1), sorted(s2), sorted(s3)>>

-----------------------------------------------------------------------------
(* req, lines 28-40.  A response on the wire is [sc, content, loc]: the    *)
(* status, the content (empty, a JSON object, or text that is not JSON)    *)
(* and the Location header ("" when the header is absent).                 *)

\* lines 34-39: None without content, the parsed object, or {"raw": text}
ParseBody(content) ==
    CASE content.kind = "empty" -> NoneDict
      [] content.kind = "json"  -> content.obj
      [] content.kind = "text"  -> [raw |-> content.text]

\* one more attempt after a 5xx answer
req_retries(log, op, w) ==
    IF w.sc >= 500
    THEN log \o <<[op |-> op, sc |-> w.sc], [op |-> op, sc |-> w.sc]>>
    ELSE Append(log, [op |-> op, sc |-> w.sc])

\* line 32: one requests.request call per req(); the run's log after it
req(log, op, w) == Append(log, [op |-> op, sc |-> w.sc])

\* line 32: requests.request raises when the request cannot complete
\* (connection refused, timeout); written as a wire answer of status 0
Raised(w) == w.sc = 0

Exception == [level |-> "exception", text |-> "ConnectionError"]

\* line 40: what req() returns
Returned(w) == [sc |-> w.sc, body |-> ParseBody(w.content), loc |-> w.loc]

-----------------------------------------------------------------------------
(* list_events, lines 42-56.  The display columns "date" and "channels"    *)
(* derived in lines 47-54 change no decision of the page and are left out. *)

\* the body on any status in place of raising
list_events_ignores_status(r) ==
    IF Raised(r) THEN [ok |-> FALSE, err |-> [level |-> "error", text |-> "ConnectionError"]]
    ELSE IF IsNoneDict(r.body)
    THEN [ok |-> FALSE, err |-> [level |-> "error", text |-> "AttributeError"]]
    ELSE [ok |-> TRUE, items |-> Get(r.body, "items", <<>>)]

list_events(r) ==
    IF Raised(r)
    THEN \* line 43 raises; line 144 catches every Exception
         [ok |-> FALSE, err |-> [level |-> "error", text |-> "ConnectionError"]]
    ELSE IF r.sc = 200
    THEN IF IsNoneDict(r.body)
         THEN \* body.get on None raises; line 144 catches every Exception
              [ok |-> FALSE, err |-> [level |-> "error", text |-> "AttributeError"]]
         ELSE [ok |-> TRUE, items |-> Get(r.body, "items", <<>>)]
    ELSE [ok |-> FALSE,
          err |-> [level |-> "error", text |-> "List failed", sc |-> r.sc,
                   msg |-> [obj |-> r.body]]]

-----------------------------------------------------------------------------
(* Create form, lines 94-139 *)

\* line 113 and lines 116-130: the payload of a form whose title is not empty
create_payload(f) ==
    LET r == enforce_mutual_exclusion(f.post, f.posting, f.posted)
        keys == {"access", "title"}
                \cup (IF f.date_mode = "Date only" THEN {"date"} ELSE {"date_id"})
                \cup (IF f.time_ # "" THEN {"time"} ELSE {})
                \cup (IF f.desc # "" THEN {"description"} ELSE {})
                \cup (IF r[1] # <<>> THEN {"post"} ELSE {})
                \cup (IF r[2] # <<>> THEN {"posting"} ELSE {})
                \cup (IF r[3] # <<>> THEN {"posted"} ELSE {})
    IN  [k \in keys |->
           CASE k = "access"      -> f.access_new
             [] k = "title"       -> f.title
             [] k = "date"        -> f.date
             [] k = "date_id"     -> f.date_id
             [] k = "time"        -> f.time_
             [] k = "description" -> f.desc
             [] k = "post"        -> r[1]
             [] k = "posting"     -> r[2]
             [] k = "posted"      -> r[3]]

\* lines 138, 206: (body or {}).get("message") or body, as the text shows it
MessageOrBody(b) ==
    LET m == Get(OrEmptyDict(b), "message", NoneStr)
    IN  IF m # NoneStr /\ m # "" THEN [str |-> m] ELSE [obj |-> b]

\* line 133
create_ok(sc) == sc = 201

\* line 202
update_ok(sc) == sc = 200

\* only 200 taken for success
delete_ok_only_200(sc) == sc = 200

\* line 210
delete_ok(sc) == sc \in {200, 204}

-----------------------------------------------------------------------------
(* Edit form, lines 164-216 *)

\* lines 168-178: what the widgets return before the user touches them.
\* st.text_input(value=None) returns None until the user types;
\* st.multiselect(default=None) returns [].
Defaults(b) ==
    [kind      |-> "edit",
     title_e   |-> Get(b, "title", ""),
     time_e    |-> Get(b, "time", ""),
     desc_e    |-> OrEmptyStr(Get(b, "description", "")),
     post_e    |-> OrEmptyList(Get(b, "post", <<>>)),
     posting_e |-> OrEmptyList(Get(b, "posting", <<>>)),
     posted_e  |-> OrEmptyList(Get(b, "posted", <<>>))]

TextWidgets == {"title_e", "time_e", "desc_e"}
SelectWidgets == {"post_e", "posting_e", "posted_e"}

Without(xs, c) == SelectSeq(xs, LAMBDA x : x # c)

\* one widget operation of the user: retype a text, pick or unpick a channel
\* (st.multiselect appends a picked option to its value)
EditOnce(f, typed) ==
    {[f EXCEPT ![w] = t] : w \in TextWidgets, t \in typed}
    \cup {[f EXCEPT ![w] = IF c \in set(f[w]) THEN Without(f[w], c)
                           ELSE Append(f[w], c)] :
            w \in SelectWidgets, c \in Chan}

RECURSIVE EditedForms(_, _, _)
EditedForms(f, typed, n) ==
    IF n = 0 THEN {f}
    ELSE LET prev == EditedForms(f, typed, n - 1)
         IN  prev \cup UNION {EditOnce(g, typed) : g \in prev}

\* the selections as picked, in place of the reconciled ones of line 179
build_patch_raw_selection(b, f) ==
    LET title == f.title_e # Get(b, "title", NoneStr)
        time  == f.time_e # OrEmptyStr(Get(b, "time", NoneStr))
        desc  == OrEmptyStr(f.desc_e) # OrEmptyStr(Get(b, "description", NoneStr))
        keys  == (IF title THEN {"title"} ELSE {})
                 \cup (IF time THEN {"time"} ELSE {})
                 \cup (IF desc THEN {"description"} ELSE {})
                 \cup (IF f.post_e # Get(b, "post", <<>>) THEN {"post"} ELSE {})
                 \cup (IF f.posting_e # Get(b, "posting", <<>>) THEN {"posting"} ELSE {})
                 \cup (IF f.posted_e # Get(b, "posted", <<>>) THEN {"posted"} ELSE {})
    IN  [k \in keys |->
           CASE k = "title"       -> f.title_e
             [] k = "time"        -> f.time_e
             [] k = "description" -> f.desc_e
             [] k = "post"        -> f.post_e
             [] k = "posting"     -> f.posting_e
             [] k = "posted"      -> f.posted_e]

\* line 179 and lines 190-196
build_patch(b, f) ==
    LET r == enforce_mutual_exclusion(f.post_e, f.posting_e, f.posted_e)
        title == f.title_e # Get(b, "title", NoneStr)
        time  == f.time_e # OrEmptyStr(Get(b, "time", NoneStr))
        desc  == OrEmptyStr(f.desc_e) # OrEmptyStr(Get(b, "description", NoneStr))
        keys  == (IF title THEN {"title"} ELSE {})
                 \cup (IF time THEN {"time"} ELSE {})
                 \cup (IF desc THEN {"description"} ELSE {})
                 \cup (IF r[1] # Get(b, "post", <<>>) THEN {"post"} ELSE {})
                 \cup (IF r[2] # Get(b, "posting", <<>>) THEN {"posting"} ELSE {})
                 \cup (IF r[3] # Get(b, "posted", <<>>) THEN {"posted"} ELSE {})
    IN  [k \in keys |->
           CASE k = "title"       -> f.title_e
             [] k = "time"        -> f.time_e
             [] k = "description" -> f.desc_e
             [] k = "post"        -> r[1]
             [] k = "posting"     -> r[2]
             [] k = "posted"      -> r[3]]

-----------------------------------------------------------------------------
(* The page: one run of the script, lines 85-216 *)

InitUIIdle ==
    /\ pc = "idle"
    /\ click = "none"
    /\ rerun = FALSE
    /\ sent = <<>>
    /\ request = [op |-> "none"]
    /\ response = [sc |-> 0, body |-> NoneDict, loc |-> ""]
    /\ msgs = <<>>
    /\ items = <<>>
    /\ sel = NoneStr
    /\ body = NoneDict
    /\ form = [kind |-> "none"]
    /\ patch = <<>>
    /\ shown = FALSE

StartRun(c) ==
    /\ pc' = "sidebar"
    /\ click' = c
    /\ rerun' = FALSE
    /\ sent' = <<>>
    /\ request' = [op |-> "none"]
    /\ response' = [sc |-> 0, body |-> NoneDict, loc |-> ""]
    /\ msgs' = <<>>
    /\ items' = <<>>
    /\ sel' = NoneStr
    /\ body' = NoneDict
    /\ form' = [kind |-> "none"]
    /\ patch' = <<>>
    /\ shown' = FALSE
    /\ UNCHANGED <<selected, result, result2>>

\* The user changes a widget outside the edit form (c = "none") or presses a
\* button; a button is True only in the run its press starts.  Save and
\* Delete exist only while the edit form is on the page.
Interact ==
    /\ pc = "idle"
    /\ ~rerun
    /\ \E c \in {"none", "Create"} \cup (IF shown THEN {"Save", "Delete"} ELSE {}) :
         StartRun(c)

\* lines 136, 204, 212: the run stopped and the script runs again, no button pressed
Rerun ==
    /\ pc = "idle"
    /\ rerun
    /\ StartRun("none")

\* lines 92-139
Sidebar(E) ==
    /\ pc = "sidebar"
    /\ IF click = "Create"
       THEN \E f \in E.createForms :
              /\ form' = f
              /\ IF f.title = ""
                 THEN /\ msgs' = Append(msgs, [level |-> "error", text |-> "Title is required."])
                      /\ pc' = "list"
                      /\ UNCHANGED <<sent, request, response, rerun>>
                 ELSE \E w \in E.postResps :
                        LET r == Returned(w) IN
                        /\ request' = [op |-> "POST", payload |-> create_payload(f)]
                        /\ sent' = req(sent, "POST", w)
                        /\ response' = r
                        /\ IF Raised(w)
                           THEN \* the exception ends the run
                                /\ msgs' = Append(msgs, Exception)
                                /\ rerun' = FALSE
                                /\ pc' = "idle"
                           ELSE IF create_ok(r.sc)
                           THEN /\ msgs' = Append(msgs,
                                     [level |-> "success", text |-> "Created",
                                      loc |-> IF r.loc # "" THEN r.loc
                                              ELSE Get(OrEmptyDict(r.body), "location", "")])
                                /\ rerun' = TRUE
                                /\ pc' = "idle"
                           ELSE /\ msgs' = Append(msgs,
                                     [level |-> "error", text |-> "Create failed",
                                      sc |-> r.sc, msg |-> MessageOrBody(r.body)])
                                /\ rerun' = FALSE
                                /\ pc' = "list"
       ELSE /\ pc' = "list"
            /\ UNCHANGED <<form, msgs, sent, request, response, rerun>>
    /\ UNCHANGED <<click, items, sel, body, patch, shown, selected, result, result2>>

\* lines 141-162
List(E) ==
    /\ pc = "list"
    /\ \E w \in E.listResps :
         LET r == Returned(w)
             got == list_events(r)
             its == IF got.ok THEN got.items ELSE <<>>
             options == {its[i].date_id : i \in DOMAIN its}
         IN
         /\ request' = [op |-> "LIST"]
         /\ sent' = req(sent, "LIST", w)
         /\ response' = r
         /\ items' = its
         /\ msgs' = (IF got.ok THEN msgs ELSE Append(msgs, got.err))
                    \o (IF its = <<>>
                        THEN <<[level |-> "info", text |-> "No events for this access yet."]>>
                        ELSE <<>>)
         /\ IF options = {} THEN sel' = NoneStr ELSE sel' \in options
    /\ form' = [kind |-> "none"]
    /\ pc' = "edit"
    /\ UNCHANGED <<click, rerun, body, patch, shown, selected, result, result2>>

\* lines 167-206: the form rendered from the fetched record r.body, Save pressed
Save(E, r, log) ==
    \E f \in EditedForms(Defaults(r.body), E.typed, E.edits) :
      LET p == build_patch(r.body, f) IN
      /\ form' = f
      /\ patch' = p
      /\ IF DOMAIN p = {}
         THEN /\ msgs' = Append(msgs, [level |-> "info", text |-> "No changes."])
              /\ sent' = log
              /\ request' = [op |-> "GET"]
              /\ response' = r
              /\ rerun' = FALSE
         ELSE \E w \in E.putResps :
                LET u == Returned(w) IN
                /\ request' = [op |-> "PUT", payload |-> p]
                /\ sent' = req(log, "PUT", w)
                /\ response' = u
                /\ IF Raised(w)
                   THEN /\ msgs' = Append(msgs, Exception)
                        /\ rerun' = FALSE
                   ELSE IF update_ok(u.sc)
                   THEN /\ msgs' = Append(msgs, [level |-> "success", text |-> "Saved"])
                        /\ rerun' = TRUE
                   ELSE /\ msgs' = Append(msgs,
                             [level |-> "error", text |-> "Update failed",
                              sc |-> u.sc, msg |-> MessageOrBody(u.body)])
                        /\ rerun' = FALSE

\* lines 167-188, 208-214: the form rendered, Delete pressed
Delete(E, r, log) ==
    \E w \in E.delResps :
      LET d == Returned(w) IN
      /\ form' = Defaults(r.body)
      /\ request' = [op |-> "DELETE"]
      /\ sent' = req(log, "DELETE", w)
      /\ response' = d
      /\ IF Raised(w)
         THEN /\ msgs' = Append(msgs, Exception)
              /\ rerun' = FALSE
         ELSE IF delete_ok(d.sc)
         THEN /\ msgs' = Append(msgs, [level |-> "success", text |-> "Deleted"])
              /\ rerun' = TRUE
         ELSE /\ msgs' = Append(msgs,
                   [level |-> "error", text |-> "Delete failed", sc |-> d.sc])
              /\ rerun' = FALSE
      /\ UNCHANGED patch

\* lines 164-216
Edit(E) ==
    /\ pc = "edit"
    /\ IF sel = NoneStr \/ sel = ""
       THEN UNCHANGED <<sent, request, response, msgs, body, form, patch, shown, rerun>>
       ELSE \E w \in E.getResps :
              LET r == Returned(w) IN
              IF Raised(w)
              THEN /\ request' = [op |-> "GET"]
                   /\ sent' = req(sent, "GET", w)
                   /\ response' = r
                   /\ msgs' = Append(msgs, Exception)
                   /\ UNCHANGED <<body, form, patch, shown, rerun>>
              ELSE IF r.sc = 200 /\ DOMAIN OrEmptyDict(r.body) # {}
              THEN /\ body' = r.body
                   /\ shown' = TRUE
                   /\ CASE click = "Save"   -> Save(E, r, req(sent, "GET", w))
                        [] click = "Delete" -> Delete(E, r, req(sent, "GET", w))
                        [] OTHER ->
                             /\ request' = [op |-> "GET"]
                             /\ sent' = req(sent, "GET", w)
                             /\ response' = r
                             /\ UNCHANGED <<msgs, form, patch, rerun>>
              ELSE /\ request' = [op |-> "GET"]
                   /\ sent' = req(sent, "GET", w)
                   /\ response' = r
                   /\ msgs' = Append(msgs,
                        [level |-> "error", text |-> "Fetch failed", sc |-> r.sc,
                         msg |-> [obj |-> r.body]])
                   /\ UNCHANGED <<body, form, patch, shown, rerun>>
    /\ pc' = "idle"
    /\ UNCHANGED <<click, items, sel, selected, result, result2>>

-----------------------------------------------------------------------------
(* The environment: what the user enters and what the API answers *)

NoDup(k) == {s \in [1..k -> Chan] : \A i, j \in 1..k : i # j => s[i] # s[j]}

\* what three multiselects hold after at most n picks: three lists without
\* repetition, in the order picked; a channel may be picked in several of them
Selections(n) ==
    UNION {UNION {UNION {NoDup(la) \X NoDup(lb) \X NoDup(lc) :
                           lc \in 0..(n - la - lb)} :
                    lb \in 0..(n - la)} :
             la \in 0..n}

\* lines 95-100: st.date_input always holds a date; the date_id text may be empty
DateInputs ==
    {[mode |-> "Date only", date |-> "2025-10-06", date_id |-> ""],
     [mode |-> "Full date_id", date |-> "", date_id |-> ""],
     [mode |-> "Full date_id", date |-> "", date_id |-> "2025-10-06#a1"]}

CreateForms(accesses, titles, times, descs, sels) ==
    {[kind |-> "create", access_new |-> a, date_mode |-> d.mode, date |-> d.date,
      date_id |-> d.date_id, title |-> t, time_ |-> tm, desc |-> ds,
      post |-> s[1], posting |-> s[2], posted |-> s[3]] :
       a \in accesses, d \in DateInputs, t \in titles, tm \in times,
       ds \in descs, s \in sels}

\* a JSON event; a key given as Absent is not in the object, null is None
AbsentStr == "<absent>"
AbsentList == <<"<absent>">>

MkBody(title, time, description, post, posting, posted) ==
    LET keys == (IF title # AbsentStr THEN {"title"} ELSE {})
                \cup (IF time # AbsentStr THEN {"time"} ELSE {})
                \cup (IF description # AbsentStr THEN {"description"} ELSE {})
                \cup (IF post # AbsentList THEN {"post"} ELSE {})
                \cup (IF posting # AbsentList THEN {"posting"} ELSE {})
                \cup (IF posted # AbsentList THEN {"posted"} ELSE {})
    IN  [k \in keys |->
           CASE k = "title"       -> title
             [] k = "time"        -> time
             [] k = "description" -> description
             [] k = "post"        -> post
             [] k = "posting"     -> posting
             [] k = "posted"      -> posted]

Empty == [kind |-> "empty"]
Json(o) == [kind |-> "json", obj |-> o]
Text(t) == [kind |-> "text", text |-> t]

Wire(sc, content, loc) == [sc |-> sc, content |-> content, loc |-> loc]

DateIds == {"2025-10-06#a1", "2025-10-07#b2"}

ItemLists == UNION {[1..n -> {[date_id |-> d] : d \in DateIds}] : n \in 0..MaxItems}

\* The page against an API that answers anything: every status, with and
\* without a message; a few forms and records.
ErrorContents ==
    {Empty, Json([message |-> "boom"]), Json([error |-> "denied"]), Text("<html>")}

Transport == Wire(0, Empty, "")

WriteResps ==
    {Wire(sc, c, "") : sc \in {200, 201, 204, 400, 500}, c \in ErrorContents}
    \cup {Wire(201, Empty, "/events/private/2025-10-06%23a1"), Transport}

FlowBodies ==
    {MkBody("Rehearsal", "7:00 pm", AbsentStr, <<"moms">>, <<>>, <<"patch">>),
     MkBody("Mass", AbsentStr, "Sunday", AbsentList, AbsentList, AbsentList)}

EnvFlow ==
    [createForms |-> CreateForms({"private", "public"}, {"", "Rehearsal"},
                                 {"", "7:00 pm"}, {""},
                                 {<<<<>>, <<>>, <<>>>>,
                                  <<<<"moms", "patch">>, <<"patch">>, <<>>>>}),
     postResps   |-> WriteResps,
     listResps   |-> {Wire(sc, c, "") : sc \in {200, 500},
                        c \in ErrorContents \cup {Json([items |-> l]) : l \in ItemLists}}
                     \cup {Transport},
     getResps    |-> {Wire(sc, c, "") : sc \in {200, 404},
                        c \in {Empty, Json([message |-> "boom"])}
                              \cup {Json(b) : b \in FlowBodies}}
                     \cup {Transport},
     putResps    |-> WriteResps,
     delResps    |-> WriteResps,
     typed       |-> {"", "Vespers"},
     edits       |-> MaxEdits]

\* The forms against an API that lists one event: every selection, every
\* shape of fetched record; the API accepts or rejects.
TextValues == {AbsentStr, NoneStr, "", "7:00 pm"}

TextBodies ==
    {MkBody(t, tm, ds, <<"moms">>, AbsentList, AbsentList) :
       t \in {AbsentStr, NoneStr, "Mass"}, tm \in TextValues, ds \in TextValues}

ListBodies ==
    {MkBody("Mass", "7:00 pm", AbsentStr, s[1], s[2], s[3]) :
       s \in Selections(MaxFetched)}
    \cup {MkBody("Mass", "7:00 pm", AbsentStr, a, b, c) :
            a \in {AbsentList, NoneList, <<"test">>}, b \in {AbsentList, NoneList},
            c \in {AbsentList, NoneList, <<"test">>}}

DataResps == {Wire(200, Empty, ""), Wire(500, Json([message |-> "boom"]), "")}

EnvData ==
    [createForms |-> CreateForms({"private"}, {"", "Mass"}, {"", "7:00 pm"}, {"", "Sung"},
                                 Selections(MaxPicks)),
     postResps   |-> {Wire(201, Empty, ""), Wire(500, Json([message |-> "boom"]), "")},
     listResps   |-> {Wire(200, Json([items |-> <<[date_id |-> "2025-10-06#a1"]>>]), "")},
     getResps    |-> {Wire(200, Json(b), "") : b \in TextBodies \cup ListBodies},
     putResps    |-> DataResps,
     delResps    |-> DataResps,
     typed       |-> {"", "8:00 pm"},
     edits       |-> MaxEdits]

Init ==
    /\ InitUIIdle
    /\ selected = <<>>
    /\ result = <<>>
    /\ result2 = <<>>

SidebarFlow == Sidebar(EnvFlow)
ListFlow == List(EnvFlow)
EditFlow == Edit(EnvFlow)

Next == Interact \/ Rerun \/ SidebarFlow \/ ListFlow \/ EditFlow

Spec == Init /\ [][Next]_vars

SidebarData == Sidebar(EnvData)
ListData == List(EnvData)
EditData == Edit(EnvData)

NextData == Interact \/ Rerun \/ SidebarData \/ ListData \/ EditData

SpecData == Init /\ [][NextData]_vars

-----------------------------------------------------------------------------
(* The reconciler alone: every triple of lists over the channels, with     *)
(* repetitions and in any order, an absent selection being None.           *)

ListsOfLen(n) == [1..n -> Chan] \cup (IF n = 0 THEN {NoneList} ELSE {})

InitPure ==
    /\ InitUIIdle
    /\ \E la \in 0..MaxLen :
         \E lb \in 0..(MaxLen - la) :
           \E lc \in 0..(MaxLen - la - lb) :
             selected \in ListsOfLen(la) \X ListsOfLen(lb) \X ListsOfLen(lc)
    /\ result = <<>>
    /\ result2 = <<>>

Reconcile ==
    /\ selected # <<>>
    /\ result = <<>>
    /\ result' = enforce_mutual_exclusion(selected[1], selected[2], selected[3])
    /\ UNCHANGED <<uiVars, selected, result2>>

ReconcileAgain ==
    /\ result # <<>>
    /\ result2 = <<>>
    /\ result2' = enforce_mutual_exclusion(result[1], result[2], result[3])
    /\ UNCHANGED <<uiVars, selected, result>>

NextPure == Reconcile \/ ReconcileAgain

SpecPure == InitPure /\ [][NextPure]_vars

-----------------------------------------------------------------------------
(* What the specification says, stated without the code's operators *)

Categories == <<"post", "posting", "posted">>

\* the first of three selections that holds the channel c; 0 when none does
FirstHolding(c, sels) ==
    IF c \in set(OrEmptyList(sels[1])) THEN 1
    ELSE IF c \in set(OrEmptyList(sels[2])) THEN 2
    ELSE IF c \in set(OrEmptyList(sels[3])) THEN 3
    ELSE 0

\* each channel is in the k-th of outs exactly when the k-th of sels is the
\* first that holds it
KeptByPriority(sels, outs) ==
    \A c \in Chan : \A k \in 1..3 :
      (c \in set(outs[k])) <=> (k = FirstHolding(c, sels))

NoRepeats(xs) == Cardinality(set(xs)) = Len(xs)

PairwiseDisjoint(outs) ==
    \A i, j \in 1..3 : i # j => set(outs[i]) \cap set(outs[j]) = {}

\* the three channel lists of a JSON object, a missing or null one being empty
ChannelLists(o) ==
    [k \in 1..3 |-> OrEmptyList(Get(o, Categories[k], <<>>))]

\* the record the API holds after a patch: the patch laid over the fetched record
Overlay(b, p) ==
    [k \in DOMAIN b \cup DOMAIN p |-> IF k \in DOMAIN p THEN p[k] ELSE b[k]]

Writes == {"POST", "PUT", "DELETE"}

\* section 4.1: 201 for create, 200 for update, 200 or 204 for delete
Succeeded(op, sc) ==
    CASE op = "POST"   -> sc = 201
      [] op = "PUT"    -> sc = 200
      [] op = "DELETE" -> sc \in {200, 204}
      [] OTHER         -> FALSE

Ops(log) == {log[i].op : i \in DOMAIN log}

\* C1: for every three input selections, absent ones included, the reconciler
\* returns three pairwise-disjoint lists without repetition; a channel of any
\* input is in exactly one output, that of the highest-priority input holding
\* it (post > posting > posted), and a channel of no input is in no output.
C1_ReconcilerPartitionsByPriority ==
    result # <<>> =>
      /\ PairwiseDisjoint(result)
      /\ \A k \in 1..3 : NoRepeats(result[k]) /\ set(result[k]) \subseteq Chan
      /\ KeptByPriority(selected, result)

\* C1 witness: the reconciler has run on inputs that all three hold one channel.
C1_Witness ==
    /\ result # <<>>
    /\ \E c \in Chan : \A k \in 1..3 : c \in set(OrEmptyList(selected[k]))

\* C9: reconciling the reconciler's output returns that output, order included.
C9_ReconcilerIdempotent ==
    result2 # <<>> => result2 = result

\* C9 witness: the second application has run on an output with two lists
\* filled, from inputs that overlapped.
C9_Witness ==
    /\ result2 # <<>>
    /\ result[1] # <<>>
    /\ result[2] # <<>>
    /\ \E c \in Chan : c \in set(OrEmptyList(selected[1])) \cap set(OrEmptyList(selected[3]))

\* C2: every create payload sent has pairwise-disjoint post/posting/posted, and
\* for every update sent the patch laid over the fetched record has; a channel
\* selected in several categories is kept only in the highest-priority one.
C2_SubmissionsDisjoint ==
    /\ request.op = "POST" =>
         /\ PairwiseDisjoint(ChannelLists(request.payload))
         /\ KeptByPriority(<<form.post, form.posting, form.posted>>,
                           ChannelLists(request.payload))
    /\ request.op = "PUT" =>
         /\ PairwiseDisjoint(ChannelLists(Overlay(body, request.payload)))
         /\ KeptByPriority(<<form.post_e, form.posting_e, form.posted_e>>,
                           ChannelLists(Overlay(body, request.payload)))

\* C2 witness: an update was sent for a form in which one channel is selected
\* under both post and posting.
C2_Witness ==
    /\ request.op = "PUT"
    /\ set(form.post_e) \cap set(form.posting_e) # {}

\* the run handled a press of Save on a rendered form
SaveHandled == pc = "idle" /\ click = "Save" /\ form.kind = "edit"

\* the edited selections after reconciliation, by the priority rule
Reconciled(f) ==
    [k \in 1..3 |->
       sorted({c \in Chan : FirstHolding(c, <<f.post_e, f.posting_e, f.posted_e>>) = k})]

\* the fields the specification takes for changed: an optional text that is
\* missing or null equals "", a missing list equals the empty list
ChangedFields(b, f) ==
    (IF f.title_e # Get(b, "title", NoneStr) THEN {"title"} ELSE {})
    \cup (IF OrEmptyStr(f.time_e) # OrEmptyStr(Get(b, "time", NoneStr))
          THEN {"time"} ELSE {})
    \cup (IF OrEmptyStr(f.desc_e) # OrEmptyStr(Get(b, "description", NoneStr))
          THEN {"description"} ELSE {})
    \cup {Categories[k] : k \in {i \in 1..3 :
                                  Reconciled(f)[i] # Get(b, Categories[i], <<>>)}}

EditedValue(f, k) ==
    CASE k = "title"       -> f.title_e
      [] k = "time"        -> f.time_e
      [] k = "description" -> f.desc_e
      [] k = "post"        -> Reconciled(f)[1]
      [] k = "posting"     -> Reconciled(f)[2]
      [] k = "posted"      -> Reconciled(f)[3]

\* C3: on Save the patch holds exactly the fields whose edited value differs
\* from the fetched one (a missing or null time or description equal to ""),
\* each with its edited value; with no such field nothing is sent.
C3_PatchIsExactlyTheChanges ==
    SaveHandled =>
      /\ DOMAIN patch = ChangedFields(body, form)
      /\ \A k \in DOMAIN patch : patch[k] = EditedValue(form, k)
      /\ ("PUT" \in Ops(sent)) <=> (ChangedFields(body, form) # {})

\* C4: on Save a category whose reconciled selection holds the same channels
\* as the fetched list is not in the patch, whatever the order of either.
C4_ListsComparedWithoutOrder ==
    SaveHandled =>
      \A k \in 1..3 :
        ( /\ Categories[k] \in DOMAIN body
          /\ body[Categories[k]] # NoneList
          /\ set(Reconciled(form)[k]) = set(body[Categories[k]]) )
        => Categories[k] \notin DOMAIN patch

\* the value of the date mode chosen in the create form
ChosenDate(f) == IF f.date_mode = "Date only" THEN f.date ELSE f.date_id

\* C5: no create request leaves when the title or the value of the chosen date
\* mode is empty, and every create payload carries access, a title that is not
\* empty and exactly one of date and date_id, holding a value.
C5_CreateValidatedLocally ==
    /\ (click = "Create" /\ form.kind = "create"
          /\ (form.title = "" \/ ChosenDate(form) = ""))
       => "POST" \notin Ops(sent)
    /\ request.op = "POST" =>
         LET p == request.payload IN
         /\ "access" \in DOMAIN p
         /\ "title" \in DOMAIN p /\ p.title # ""
         /\ ("date" \in DOMAIN p) # ("date_id" \in DOMAIN p)
         /\ "date" \in DOMAIN p => p.date # ""
         /\ "date_id" \in DOMAIN p => p.date_id # ""

\* the text the specification asks for: the server's message, else the body
ServerMessage(b) ==
    IF ~IsNoneDict(b) /\ "message" \in DOMAIN b /\ b.message # ""
    THEN [str |-> b.message]
    ELSE [obj |-> b]

\* C6: after a create, update or delete answered with a status that is not
\* success, an error is shown that holds the status and the server's message,
\* or the body when there is no message.
C6_FailureShowsStatusAndMessage ==
    (request.op \in Writes /\ response.sc # 0 /\ ~Succeeded(request.op, response.sc))
    => \E i \in DOMAIN msgs :
         /\ msgs[i].level = "error"
         /\ "sc" \in DOMAIN msgs[i] /\ msgs[i].sc = response.sc
         /\ "msg" \in DOMAIN msgs[i] /\ msgs[i].msg = ServerMessage(response.body)

\* the list request of the run was answered with a status other than 200
ListFailed ==
    \E i \in DOMAIN sent : sent[i].op = "LIST" /\ sent[i].sc \notin {0, 200}

\* C7: when the list request is answered with a status other than 200, the run
\* shows an error holding the status and the body, shows no rows, offers no
\* item and sends no get, update or delete request.
C7_ListFailureShowsErrorAndNoRows ==
    ListFailed =>
      /\ items = <<>>
      /\ sel = NoneStr
      /\ ~shown
      /\ Ops(sent) \cap {"GET", "PUT", "DELETE"} = {}
      /\ request.op = "LIST"
      /\ \E i \in DOMAIN msgs :
           /\ msgs[i].level = "error"
           /\ msgs[i].text = "List failed"
           /\ msgs[i].sc = response.sc
           /\ msgs[i].msg = [obj |-> response.body]

\* C7 witness: Save was pressed, the list request of that run got a 500 whose
\* body lists an event, and the run has ended.
C7_Witness ==
    /\ ListFailed
    /\ pc = "idle"
    /\ click = "Save"
    /\ "items" \in DOMAIN response.body

\* C8: a rerun is requested exactly when a write succeeded: create answered
\* 201, update 200, delete 200 or 204.
C8_RefreshExactlyOnSuccess ==
    /\ rerun => request.op \in Writes
    /\ request.op \in Writes => (rerun <=> Succeeded(request.op, response.sc))

\* C8 witness: a delete answered 204 and the rerun is requested.
C8_Witness ==
    /\ request.op = "DELETE"
    /\ response.sc = 204
    /\ rerun

\* the write a press of the button may send
WriteOf(c) ==
    CASE c = "Create" -> {"POST"}
      [] c = "Save"   -> {"PUT"}
      [] c = "Delete" -> {"DELETE"}
      [] OTHER        -> {}

\* C10: a run sends at most one write, the one of the button pressed; a run
\* without a button pressed, the rerun after a success included, sends none.
C10_AtMostOneWritePerAction ==
    /\ Cardinality({i \in DOMAIN sent : sent[i].op \in Writes}) <= 1
    /\ Ops(sent) \cap Writes \subseteq WriteOf(click)

\* C10 witness: an update answered 500; the run has ended with no rerun.
C10_Witness ==
    /\ pc = "idle"
    /\ ~rerun
    /\ \E i \in DOMAIN sent : sent[i].op = "PUT" /\ sent[i].sc = 500

====
